---- MODULE Spec2Model ----
(***************************************************************************)
(* Model of the two command-line converters of the repository:             *)
(*   step_to_glb_converter.py  (main + three fallback strategies)          *)
(*   stl_to_glb_converter.py   (main + convert_stl_to_glb)                 *)
(* The external toolkits (FreeCAD, CadQuery, trimesh, subprocess, the      *)
(* filesystem) are the environment: every call into them either returns or *)
(* raises, and the outcome is chosen nondeterministically.                 *)
(***************************************************************************)
EXTENDS Integers, Sequences, FiniteSets, TLC

VARIABLES
    prog,         \* which entry point runs: "step" or "stl"
    argc,         \* len(sys.argv)
    inputName,    \* sys.argv[1], a sequence of characters
    inputExists,  \* os.path.exists(sys.argv[1])
    pc,           \* position in main
    success,      \* main's local variable `success`
    exitCode,     \* process exit code, -1 while running
    target,       \* file at sys.argv[2]: "absent", "old", "partial", "complete"
    files,        \* temporary files on disk: name -> "absent", "empty", "data"
    attempted,    \* strategies called by main, in call order
    calls,        \* calls made into the backends
    validated,    \* strategies that checked their intermediate STL non-empty
    ret,          \* return value of each strategy: "none", "True", "False"
    diag,         \* diagnostics printed, per printer
    cause,        \* what actually made each strategy fail
    cmdIdx,       \* CLI strategy: index of the next candidate command
    invoked,      \* CLI strategy: commands that were started, in order
    cliSuccess    \* CLI strategy: local variable `success`

vars == <<prog, argc, inputName, inputExists, pc, success, exitCode, target,
          files, attempted, calls, validated, ret, diag, cause, cmdIdx,
          invoked, cliSuccess>>

----------------------------------------------------------------------------
(* Bounds and program constants *)

MaxArgc == 4

ExpectedArgc == 3

TimeoutSecs == 120

Strategies == {"freecad", "cadquery", "cli", "stl"}

StepStrategies == {"freecad", "cadquery", "cli"}

Printers == Strategies \cup {"main"}

TempNames == {"freecad_stl", "cadquery_stl", "cli_stl", "cli_script"}

freecad_commands ==
    << "freecadcmd", "FreeCADCmd",
       "/Applications/FreeCAD.app/Contents/MacOS/FreeCAD", "freecad" >>

\* File names given on the command line, as character sequences.
InputNames ==
    { << "a", ".", "s", "t", "e", "p" >>,
      << "a", ".", "S", "T", "P" >>,
      << "a", ".", "s", "t", "l" >>,
      << "a", ".", "S", "T", "L" >>,
      << "a", ".", "t", "x", "t" >>,
      << "s", "t", "e", "p" >> }

----------------------------------------------------------------------------
(* Pure helpers *)

\* str.lower() on one character of the alphabet used by InputNames
LowerChar(c) ==
    CASE c = "S" -> "s"
      [] c = "T" -> "t"
      [] c = "E" -> "e"
      [] c = "P" -> "p"
      [] c = "L" -> "l"
      [] OTHER   -> c

Lower(s) == [i \in DOMAIN s |-> LowerChar(s[i])]

EndsWith(s, suffix) ==
    /\ Len(suffix) <= Len(s)
    /\ SubSeq(s, Len(s) - Len(suffix) + 1, Len(s)) = suffix

DotStep == << ".", "s", "t", "e", "p" >>

DotStp == << ".", "s", "t", "p" >>

DotStl == << ".", "s", "t", "l" >>

\* faulty variant: extra arguments are let through
ArgsValid_mut(n) == n >= ExpectedArgc

\* step_to_glb_converter.main: len(sys.argv) != 3 is a usage error
ArgsValid(n) == n = ExpectedArgc

\* step_to_glb_converter.main: step_file.lower().endswith(('.step', '.stp'))
StepExtensionOk(name) ==
    EndsWith(Lower(name), DotStep) \/ EndsWith(Lower(name), DotStp)

\* stl_to_glb_converter.main performs no extension test
StlExtensionOk(name) == TRUE

\* the accepted set the documentation gives for the STL entry point
IsStlName(name) == EndsWith(Lower(name), DotStl)

Pos(seq, x) == CHOOSE i \in DOMAIN seq : seq[i] = x

\* the step `step` was started before the run stopped at `failAt`
Reached(steps, failAt, step) == Pos(steps, step) <= Pos(steps, failAt)

\* the step `step` completed without raising
Passed(steps, failAt, step) == Pos(steps, step) < Pos(steps, failAt)

Call(s, op, arg) == [s |-> s, op |-> op, arg |-> arg]

\* a printed diagnostic and the failure reason its text conveys ("none" when
\* the text names no reason)
Msg(text, reason) == [text |-> text, reason |-> reason]

----------------------------------------------------------------------------
Init ==
    /\ prog \in {"step", "stl"}
    /\ argc \in 1..MaxArgc
    /\ inputName \in InputNames
    /\ inputExists \in BOOLEAN
    /\ pc = "main"
    /\ success = FALSE
    /\ exitCode = -1
    /\ target \in {"absent", "old"}
    /\ files = [f \in TempNames |-> "absent"]
    /\ attempted = << >>
    /\ calls = {}
    /\ validated = {}
    /\ ret = [s \in Strategies |-> "none"]
    /\ diag = [p \in Printers |-> {}]
    /\ cause = [s \in Strategies |-> {}]
    /\ cmdIdx = 1
    /\ invoked = << >>
    /\ cliSuccess = FALSE

\* main, lines 245-260 (STEP) and 38-60 (STL): argument and input checks
Validate ==
    /\ pc = "main"
    /\ LET extOk == IF prog = "step" THEN StepExtensionOk(inputName)
                                     ELSE StlExtensionOk(inputName)
           ok == ArgsValid(argc) /\ inputExists /\ extOk
           msg == IF ~ArgsValid(argc) THEN Msg("usage", "none")
                  ELSE IF ~inputExists THEN Msg("Input file not found", "none")
                  ELSE Msg("Input file must be .step or .stp format", "none")
       IN  IF ok
           THEN /\ pc' = IF prog = "step" THEN "freecad" ELSE "stl"
                /\ UNCHANGED <<exitCode, diag>>
           ELSE /\ pc' = "exit"
                /\ exitCode' = 1
                /\ diag' = [diag EXCEPT !["main"] = @ \cup {msg}]
    /\ UNCHANGED <<prog, argc, inputName, inputExists, success, target, files,
                   attempted, calls, validated, ret, cause, cmdIdx, invoked,
                   cliSuccess>>

----------------------------------------------------------------------------
(* The strategies.  Each takes the environment's choice e (where, if at all,
   a backend call raises; what the CAD export wrote), the temporary files and
   the target, and yields what the function returns and leaves behind.       *)

FreecadSteps ==
    << "import_backend", "tempfile", "cad_import", "stl_export",
       "import_trimesh", "load", "glb_export", "return" >>

CadquerySteps ==
    << "import_backend", "tempfile", "cad_import", "stl_export",
       "load", "glb_export", "return" >>

StlSteps == << "import_trimesh", "load", "glb_export", "return" >>

\* trimesh cannot turn an empty STL into a GLB: load or export raises before
\* anything is written, so a run that returns has a non-empty STL and a
\* partial target comes only from a failing export of real data.  stlData
\* (did the CAD export write geometry) is free only in runs that go on to
\* read the STL.
EnvsOver(steps) ==
    { e \in [failAt : { steps[i] : i \in DOMAIN steps },
             stlData : BOOLEAN, partial : BOOLEAN] :
        /\ e.failAt = "return" => e.stlData
        /\ e.partial => (e.failAt = "glb_export" /\ e.stlData)
        /\ e.stlData => Reached(steps, e.failAt, "load") }

FreecadEnvs == EnvsOver(FreecadSteps)

CadqueryEnvs == EnvsOver(CadquerySteps)

StlEnvs ==
    { e \in [failAt : { StlSteps[i] : i \in DOMAIN StlSteps },
             partial : BOOLEAN] :
        e.partial => e.failAt = "glb_export" }

BackendOps == << "cad_import", "stl_export", "load", "glb_export" >>

\* the backend calls a run makes before it stops at failAt
CallsOf(s, steps, failAt) ==
    { Call(s, BackendOps[i], "") :
        i \in { j \in DOMAIN BackendOps :
                  /\ \E k \in DOMAIN steps : steps[k] = BackendOps[j]
                  /\ Reached(steps, failAt, BackendOps[j]) } }

\* mesh_data.export(glb_file, file_type='glb'): the target after the call
ExportTarget(tgt, failAt, partial) ==
    IF failAt = "return" THEN "complete"
    ELSE IF failAt = "glb_export" /\ partial THEN "partial"
    ELSE tgt

\* step_to_glb_converter.py lines 13-77
convert_step_to_glb_freecad(e, fs, tgt) ==
    LET st == FreecadSteps
        ok == e.failAt = "return"
        made == Passed(st, e.failAt, "tempfile")
        content == IF e.stlData THEN "data" ELSE "empty"
    IN  [ ret |-> ok,
          \* os.remove(stl_path) sits on the success path only (lines 62-67)
          files |-> [fs EXCEPT !["freecad_stl"] =
                        IF made /\ ~ok THEN content ELSE "absent"],
          target |-> ExportTarget(tgt, e.failAt, e.partial),
          calls |-> CallsOf("freecad", st, e.failAt),
          validated |-> FALSE,
          \* except ImportError (line 72) also catches `import trimesh`
          msgs |-> IF ok THEN {Msg("SUCCESS", "none")}
                   ELSE IF e.failAt \in {"import_backend", "import_trimesh"}
                        THEN {Msg("FreeCAD not found", "absent")}
                   ELSE {Msg("Conversion failed", "runtime")},
          cause |-> IF ok THEN {}
                    ELSE IF e.failAt \in {"import_backend", "import_trimesh"}
                         THEN {"absent"}
                    ELSE {"runtime"} ]

\* step_to_glb_converter.py lines 79-118
convert_step_to_glb_cadquery(e, fs, tgt) ==
    LET st == CadquerySteps
        ok == e.failAt = "return"
        made == Passed(st, e.failAt, "tempfile")
        content == IF e.stlData THEN "data" ELSE "empty"
    IN  [ ret |-> ok,
          files |-> [fs EXCEPT !["cadquery_stl"] =
                        IF made /\ ~ok THEN content ELSE "absent"],
          target |-> ExportTarget(tgt, e.failAt, e.partial),
          calls |-> CallsOf("cadquery", st, e.failAt),
          validated |-> FALSE,
          msgs |-> IF ok THEN {Msg("SUCCESS", "none")}
                   ELSE IF e.failAt = "import_backend"
                        THEN {Msg("CadQuery not found", "absent")}
                   ELSE {Msg("Conversion failed", "runtime")},
          cause |-> IF ok THEN {}
                    ELSE IF e.failAt = "import_backend" THEN {"absent"}
                    ELSE {"runtime"} ]

\* stl_to_glb_converter.py lines 12-35
convert_stl_to_glb(e, fs, tgt) ==
    LET ok == e.failAt = "return"
    IN  [ ret |-> ok,
          files |-> fs,
          target |-> ExportTarget(tgt, e.failAt, e.partial),
          calls |-> CallsOf("stl", StlSteps, e.failAt),
          validated |-> FALSE,
          msgs |-> IF ok THEN {Msg("Conversion successful", "none")}
                   ELSE IF e.failAt = "import_trimesh"
                        THEN {Msg("trimesh not installed", "absent")}
                   ELSE {Msg("Conversion failed", "runtime")},
          cause |-> IF ok THEN {}
                    ELSE IF e.failAt = "import_trimesh" THEN {"absent"}
                    ELSE {"runtime"} ]

\* faulty variant: the guard is dropped
ShouldTry_mut(s) == TRUE

\* main's guard `if not success:` before each strategy (lines 275, 279, 283)
ShouldTry(s) == ~s

\* faulty variant: the sys.exit(1) is missing
ExitCodeOf_mut(s) == 0

\* sys.exit(1) at line 297 / 76, normal return otherwise
ExitCodeOf(s) == IF s THEN 0 ELSE 1

\* main calls strategy s and the call returns r
Returned(s, r) ==
    /\ success' = r.ret
    /\ files' = r.files
    /\ target' = r.target
    /\ calls' = calls \cup r.calls
    /\ attempted' = Append(attempted, s)
    /\ validated' = IF r.validated THEN validated \cup {s} ELSE validated
    /\ ret' = [ret EXCEPT ![s] = IF r.ret THEN "True" ELSE "False"]
    /\ diag' = [diag EXCEPT ![s] = @ \cup r.msgs]
    /\ cause' = [cause EXCEPT ![s] = @ \cup r.cause]

Skipped ==
    UNCHANGED <<success, files, target, calls, attempted, validated, ret,
                diag, cause>>

\* main, lines 274-276
TryFreecad ==
    /\ pc = "freecad"
    /\ IF ShouldTry(success)
       THEN \E e \in FreecadEnvs :
                Returned("freecad", convert_step_to_glb_freecad(e, files, target))
       ELSE Skipped
    /\ pc' = "cadquery"
    /\ UNCHANGED <<prog, argc, inputName, inputExists, exitCode, cmdIdx,
                   invoked, cliSuccess>>

\* main, lines 278-280
TryCadquery ==
    /\ pc = "cadquery"
    /\ IF ShouldTry(success)
       THEN \E e \in CadqueryEnvs :
                Returned("cadquery", convert_step_to_glb_cadquery(e, files, target))
       ELSE Skipped
    /\ pc' = "cli"
    /\ UNCHANGED <<prog, argc, inputName, inputExists, exitCode, cmdIdx,
                   invoked, cliSuccess>>

\* stl_to_glb_converter.main, lines 70-76
ConvertStl ==
    /\ pc = "stl"
    /\ \E e \in StlEnvs :
           /\ Returned("stl", convert_stl_to_glb(e, files, target))
           /\ exitCode' = ExitCodeOf(e.failAt = "return")
    /\ pc' = "exit"
    /\ UNCHANGED <<prog, argc, inputName, inputExists, cmdIdx, invoked,
                   cliSuccess>>

----------------------------------------------------------------------------
(* The FreeCAD command-line strategy, lines 120-205 *)

CliSetupSteps ==
    << "import_trimesh", "tempfile_stl", "tempfile_script", "return" >>

CliSetupEnvs == { CliSetupSteps[i] : i \in DOMAIN CliSetupSteps }

\* what one subprocess.run of a candidate command can do: the command is not
\* found (FileNotFoundError), is found but cannot be executed (another
\* OSError), or runs for `elapsed` seconds, exits with `returncode` and may
\* have written geometry to the STL; then the mesh load or the GLB export
\* may raise.  The fields a run never gets to look at are held at one value.
CliEnvs ==
    { e \in [found : BOOLEAN, executable : BOOLEAN,
             elapsed : {0, TimeoutSecs, TimeoutSecs + 1},
             returncode : {0, 1}, stlData : BOOLEAN,
             failAt : {"load", "glb_export", "return"}, partial : BOOLEAN] :
        /\ e.partial => e.failAt = "glb_export"
        /\ ~e.found => e.executable
        /\ IF e.found /\ e.executable
           THEN e.elapsed >= TimeoutSecs
           ELSE e.elapsed = 0 /\ e.returncode = 0 /\ ~e.stlData
        /\ (~(e.found /\ e.executable) \/ e.elapsed > TimeoutSecs
              \/ e.returncode # 0) => e.failAt = "return" }

\* subprocess.run(..., timeout=120) raises TimeoutExpired past the budget
TimedOut(elapsed) == elapsed > TimeoutSecs

\* line 171: result.returncode == 0 and os.path.exists(stl_path)
\*           and os.path.getsize(stl_path) > 0
ArtifactOk(returncode, stl) ==
    returncode = 0 /\ stl # "absent" /\ stl = "data"

\* faulty variant: the `break` is missing
LoopDone_mut(ok, idx) == idx = Len(freecad_commands)

\* the for loop ends on `break` (line 180) or when the list is exhausted
LoopDone(ok, idx) == ok \/ idx = Len(freecad_commands)

\* faulty variant: the script is never removed
CleanupFiles_mut(fs) ==
    IF fs["cli_stl"] = "absent" THEN fs
    ELSE [fs EXCEPT !["cli_stl"] = "absent"]

\* lines 189-194: both removals share one try, so a failing first removal
\* skips the second
CleanupFiles(fs) ==
    IF fs["cli_stl"] = "absent" THEN fs
    ELSE [fs EXCEPT !["cli_stl"] = "absent", !["cli_script"] = "absent"]

\* one iteration of the loop at lines 162-187 for command cmd
Probe(cmd, e, stl, tgt) ==
    LET started == e.found /\ e.executable
        timeout == started /\ TimedOut(e.elapsed)
        stl2 == IF started /\ e.stlData THEN "data" ELSE stl
        checked == started /\ ~timeout
        good == checked /\ ArtifactOk(e.returncode, stl2)
        ok == good /\ e.failAt = "return"
    IN  [ started |-> started,
          ok |-> ok,
          stl |-> stl2,
          target |-> IF good THEN ExportTarget(tgt, e.failAt, e.partial)
                     ELSE tgt,
          validated |-> good,
          calls |-> (IF started THEN {Call("cli", "run", cmd)} ELSE {})
                    \cup (IF good THEN {Call("cli", "load", "")} ELSE {})
                    \cup (IF good /\ e.failAt # "load"
                          THEN {Call("cli", "glb_export", "")} ELSE {}),
          \* only the timeout handler prints (line 184); the other handlers
          \* drop the exception (lines 181-182, 186-187)
          msgs |-> IF timeout THEN {Msg("Timeout", "timeout")} ELSE {},
          \* a command that is missing or cannot be executed is an absent
          \* backend; a run that fails is a runtime error
          cause |-> IF ok THEN {}
                    ELSE IF ~started THEN {"absent"}
                    ELSE IF timeout THEN {"timeout"}
                    ELSE {"runtime"} ]

\* main lines 282-284 and convert_step_to_glb_cli lines 122-151: the call,
\* the imports, and the creation of the temporary STL and script
TryCli ==
    /\ pc = "cli"
    /\ IF ShouldTry(success)
       THEN \E f \in CliSetupEnvs :
              /\ attempted' = Append(attempted, "cli")
              /\ files' =
                   [files EXCEPT
                      !["cli_stl"] =
                         IF Passed(CliSetupSteps, f, "tempfile_stl")
                         THEN "empty" ELSE @,
                      !["cli_script"] =
                         IF Passed(CliSetupSteps, f, "tempfile_script")
                         THEN "data" ELSE @]
              /\ IF f = "return"
                 THEN /\ pc' = "cli_loop"
                      /\ UNCHANGED <<ret, diag, cause, success>>
                 ELSE \* outer `except Exception` (lines 203-205)
                      /\ pc' = "finish"
                      /\ success' = FALSE
                      /\ ret' = [ret EXCEPT !["cli"] = "False"]
                      /\ LET why == IF f = "import_trimesh" THEN "absent"
                                     ELSE "runtime"
                         IN  /\ diag' = [diag EXCEPT !["cli"] =
                                          @ \cup {Msg("Conversion failed", why)}]
                             /\ cause' = [cause EXCEPT !["cli"] = {why}]
       ELSE /\ pc' = "finish"
            /\ UNCHANGED <<attempted, files, ret, diag, cause, success>>
    /\ cmdIdx' = 1
    /\ cliSuccess' = FALSE
    /\ UNCHANGED <<prog, argc, inputName, inputExists, exitCode, target,
                   calls, validated, invoked>>

\* convert_step_to_glb_cli lines 162-201: one pass of the loop and, when the
\* loop ends with it, the cleanup and the return to main
CliProbe ==
    /\ pc = "cli_loop"
    /\ \E e \in CliEnvs :
         LET cmd == freecad_commands[cmdIdx]
             r == Probe(cmd, e, files["cli_stl"], target)
             done == LoopDone(r.ok, cmdIdx)
             fs == [files EXCEPT !["cli_stl"] = r.stl]
         IN  /\ target' = r.target
             /\ calls' = calls \cup r.calls
             /\ validated' = IF r.validated THEN validated \cup {"cli"}
                             ELSE validated
             /\ invoked' = IF r.started THEN Append(invoked, cmd) ELSE invoked
             /\ cliSuccess' = (cliSuccess \/ r.ok)
             /\ cause' = [cause EXCEPT !["cli"] = @ \cup r.cause]
             /\ IF done
                THEN /\ files' = CleanupFiles(fs)
                     /\ ret' = [ret EXCEPT !["cli"] =
                                   IF cliSuccess' THEN "True" ELSE "False"]
                     /\ diag' = [diag EXCEPT !["cli"] =
                                   @ \cup r.msgs \cup
                                   {IF cliSuccess' THEN Msg("SUCCESS", "none")
                                    ELSE Msg("FreeCAD CLI not found or failed",
                                             "none")}]
                     /\ success' = cliSuccess'
                     /\ pc' = "finish"
                     /\ UNCHANGED cmdIdx
                ELSE /\ files' = fs
                     /\ diag' = [diag EXCEPT !["cli"] = @ \cup r.msgs]
                     /\ cmdIdx' = cmdIdx + 1
                     /\ UNCHANGED <<ret, success, pc>>
    /\ UNCHANGED <<prog, argc, inputName, inputExists, exitCode, attempted>>

\* main, lines 286-308: the exhaustion report or the completion banner
Finish ==
    /\ pc = "finish"
    /\ exitCode' = ExitCodeOf(success)
    /\ diag' = [diag EXCEPT !["main"] =
                  @ \cup {IF success THEN Msg("CONVERSION COMPLETE", "none")
                          ELSE Msg("CONVERSION FAILED: No suitable converter found",
                                   "none")}]
    /\ pc' = "exit"
    /\ UNCHANGED <<prog, argc, inputName, inputExists, success, target, files,
                   attempted, calls, validated, ret, cause, cmdIdx, invoked,
                   cliSuccess>>

Next ==
    \/ Validate
    \/ TryFreecad
    \/ TryCadquery
    \/ TryCli
    \/ CliProbe
    \/ Finish
    \/ ConvertStl


Spec == Init /\ [][Next]_vars

----------------------------------------------------------------------------
(* Properties *)

StrategyOrder == << "freecad", "cadquery", "cli" >>

IsPrefix(s, t) == Len(s) <= Len(t) /\ SubSeq(t, 1, Len(s)) = s

TempsOf(s) ==
    CASE s = "freecad"  -> {"freecad_stl"}
      [] s = "cadquery" -> {"cadquery_stl"}
      [] s = "cli"      -> {"cli_stl", "cli_script"}
      [] OTHER          -> {}

BadRequest == argc # ExpectedArgc \/ ~inputExists

\* C1: a validated STEP request tries in-process FreeCAD, then CadQuery, then
\* the FreeCAD command line; each at most once, each only after every
\* higher-priority strategy was tried and failed, and none after a success.
C1_StrategyOrder ==
    prog = "step" =>
      /\ IsPrefix(attempted, StrategyOrder)
      /\ \A i \in 2..Len(attempted) : ret[attempted[i - 1]] = "False"
      /\ \A s \in StepStrategies :
            ret[s] = "True" =>
               /\ attempted # << >>
               /\ attempted[Len(attempted)] = s
      /\ (pc \notin {"main", "freecad"} /\ ~BadRequest
            /\ StepExtensionOk(inputName)) => Len(attempted) >= 1
      /\ (pc = "exit" /\ exitCode = 1 /\ attempted # << >>) =>
            attempted = StrategyOrder

C1_Witness ==
    /\ pc = "exit"
    /\ attempted = StrategyOrder
    /\ ret["freecad"] = "False"
    /\ ret["cadquery"] = "False"
    /\ ret["cli"] = "True"

\* C2: in convert_step an unavailable backend or an error raised by a
\* strategy becomes that strategy returning False and the next strategy is
\* tried; the exit code is 1 only after all three failed (or on a usage or
\* validation error) and 0 whenever some strategy succeeded.
C2_ExitCodes ==
    prog = "step" =>
      /\ \A s \in StepStrategies :
            /\ (cause[s] # {} /\ ret[s] # "none") =>
                  (ret[s] = "False" \/ s = "cli")
            /\ (ret[s] = "False" /\ pc = "exit") =>
                  \A i \in 1..3 :
                     (StrategyOrder[i] = s /\ i < 3) =>
                        StrategyOrder[i + 1] \in
                           { attempted[j] : j \in DOMAIN attempted }
      /\ exitCode = 1 =>
            \/ attempted = << >> /\ (BadRequest \/ ~StepExtensionOk(inputName))
            \/ \A s \in StepStrategies : ret[s] = "False"
      /\ exitCode = 0 => \E s \in StepStrategies : ret[s] = "True"
      /\ (pc = "exit" /\ \E s \in StepStrategies : ret[s] = "True") =>
            exitCode = 0
      /\ pc = "exit" => exitCode \in {0, 1}

C2_Witness ==
    /\ pc = "exit"
    /\ exitCode = 0
    /\ cause["freecad"] = {"absent"}
    /\ ret["freecad"] = "False"
    /\ cause["cadquery"] = {"runtime"}
    /\ ret["cadquery"] = "False"
    /\ ret["cli"] = "True"

\* C3: in both converters a wrong argument count or a missing input makes the
\* process exit non-zero with no strategy or backend attempted and the target
\* path neither created nor modified.
C3_RejectedUpfront ==
    /\ [](BadRequest =>
            /\ attempted = << >>
            /\ calls = {}
            /\ invoked = << >>
            /\ \A s \in Strategies : ret[s] = "none"
            /\ pc \in {"main", "exit"}
            /\ pc = "exit" => exitCode = 1)
    /\ [][BadRequest => (target' = target /\ files' = files)]_vars

C3_Witness ==
    /\ pc = "exit"
    /\ exitCode = 1
    /\ argc = ExpectedArgc
    /\ ~inputExists
    /\ target = "old"
    /\ calls = {}

\* C4: for an existing input whose extension is outside the accepted set of
\* the entry point ({.step, .stp} for STEP, {.stl} for STL) the request is
\* rejected before any backend call is made.
C4_ExtensionRejected ==
    (argc = ExpectedArgc /\ inputExists) =>
      /\ (prog = "step" /\ ~StepExtensionOk(inputName)) => calls = {}
      /\ (prog = "stl" /\ ~IsStlName(inputName)) => calls = {}

\* C5: when a conversion request (one with an accepted input name) ends in
\* failure, no file written by the request is at the target path: a failing
\* export leaves no partially written target.
C5_NoTargetOnFailure ==
    (pc = "exit" /\ exitCode = 1 /\ (prog = "stl" => IsStlName(inputName)))
       => target \in {"absent", "old"}

\* C6: a STEP strategy that created temporary files and then failed has
\* deleted every one of them by the time it returns.
C6_NoTempAfterFailure ==
    \A s \in StepStrategies :
       ret[s] = "False" => \A f \in TempsOf(s) : files[f] = "absent"

\* C7: a command-line run that exceeds the 120-second budget fails only that
\* attempt: the loop goes on to the next candidate (or, after the last one,
\* to the strategy's failure and main's exhaustion handling), and when the
\* strategy has returned neither the temporary STL nor the temporary script
\* is on disk.
C7_TimeoutContinues ==
    /\ []("timeout" \in cause["cli"] =>
            /\ ret["cli"] # "none" =>
                  \A f \in TempsOf("cli") : files[f] = "absent"
            /\ pc = "exit" =>
                  /\ exitCode = (IF ret["cli"] = "True" THEN 0 ELSE 1)
                  /\ ret["cli"] # "none")
    /\ [][("timeout" \notin cause["cli"] /\ "timeout" \in cause'["cli"]) =>
            /\ exitCode' = -1
            /\ IF cmdIdx < Len(freecad_commands)
               THEN pc' = "cli_loop" /\ cmdIdx' = cmdIdx + 1
               ELSE pc' = "finish" /\ ret'["cli"] = "False" /\ ~success']_vars

C7_Witness ==
    /\ pc = "exit"
    /\ "timeout" \in cause["cli"]
    /\ Len(invoked) >= 2
    /\ ret["cli"] = "True"
    /\ files["cli_stl"] = "absent"
    /\ files["cli_script"] = "absent"

\* the reasons the diagnostics printed by strategy s convey
Reported(s) == { m.reason : m \in diag[s] } \ {"none"}

\* C8: when all STEP strategies fail, the diagnostics given to the caller
\* name, for each strategy tried, the reason it failed, telling backend
\* absent from runtime error from timeout.
C8_ReasonsReported ==
    (prog = "step" /\ pc = "exit" /\ exitCode = 1 /\ attempted = StrategyOrder)
      => \A s \in StepStrategies : cause[s] # {} /\ Reported(s) = cause[s]

\* C9: in every STEP strategy the mesh load / GLB export is reached only
\* after the intermediate STL was checked to be non-empty, and no strategy
\* reports success without that check having passed.
C9_ValidatedBeforeExport ==
    \A s \in StepStrategies :
       /\ Call(s, "load", "") \in calls => s \in validated
       /\ ret[s] = "True" => s \in validated

Position(cmd) == Pos(freecad_commands, cmd)

\* C10 as stated: the candidates are probed in list order and the first one
\* that is found and executable is the only one ever run.
C10_FirstFoundWins ==
    /\ \A i \in 1..Len(invoked) : \A j \in 1..Len(invoked) :
          i < j => Position(invoked[i]) < Position(invoked[j])
    /\ Len(invoked) <= 1

\* C10 amended: the candidates are probed in list order, names that are not
\* found are skipped, a candidate that runs but fails (non-zero exit, empty
\* STL, timeout, load or export error) is followed by the next candidate, and
\* the first candidate whose run ends in a completed GLB export wins: no
\* later candidate is run and the strategy returns True.
C10_FirstSuccessWins ==
    /\ [](/\ \A i \in 1..Len(invoked) : \A j \in 1..Len(invoked) :
               i < j => Position(invoked[i]) < Position(invoked[j])
          /\ \A i \in 1..Len(invoked) :
               /\ Call("cli", "run", invoked[i]) \in calls
               /\ Position(invoked[i]) <=
                     (IF pc = "cli_loop" THEN cmdIdx - 1 ELSE cmdIdx)
          /\ cliSuccess =>
               /\ pc # "cli_loop"
               /\ ret["cli"] = "True"
               /\ invoked # << >>
               /\ Position(invoked[Len(invoked)]) = cmdIdx
               /\ Call("cli", "glb_export", "") \in calls
          /\ ret["cli"] = "True" => cliSuccess)
    /\ [][(pc = "cli_loop" /\ ~cliSuccess') =>
            IF cmdIdx < Len(freecad_commands)
            THEN pc' = "cli_loop" /\ cmdIdx' = cmdIdx + 1
            ELSE pc' = "finish" /\ ret'["cli"] = "False"]_vars

C10_Witness ==
    /\ cliSuccess
    /\ ret["cli"] = "True"
    /\ Len(invoked) >= 2
    /\ invoked[Len(invoked)] = "freecad"
====
